---- MODULE Spec2Model ----
(***************************************************************************)
(* SyncFolders (src/main.py): one-way periodic mirroring of a source       *)
(* directory tree onto a replica directory tree.                           *)
(*                                                                         *)
(* The file system is one map from absolute paths (sequences of names) to  *)
(* entries. Three roots exist: <<"S">> the source root, <<"R">> the        *)
(* replica root (absent before the bootstrap), <<"X">> everything outside  *)
(* both trees (the place symbolic links point to).                         *)
(***************************************************************************)
EXTENDS Integers, Sequences, FiniteSets, TLC

VARIABLES
    fs,               \* the file system: absolute path -> entry
    pc,               \* position of main() in its loop
    cycle,            \* number of loop iterations that reached their sleep
    updated,          \* main's local `updated`
    src_rel_paths,    \* main's local: snapshot of the source tree
    rep_rel_paths,    \* main's local: snapshot of the replica tree
    only_in_rep,      \* main's local
    only_in_src,      \* main's local
    common_rel_paths, \* main's local
    queue,            \* the tuple/iterator the running for-loop walks
    cmp_cache,        \* filecmp's module-level cache of comparison results
    log,              \* records the logger emitted in the current iteration
    ops,              \* file-system mutations attempted with success in the current iteration
    err,              \* the exception propagating out of main, or NoErr
    edits,            \* number of third-party changes made so far
    third             \* the third party's changes: [path, old, cycle] records

vars == <<fs, pc, cycle, updated, src_rel_paths, rep_rel_paths, only_in_rep,
          only_in_src, common_rel_paths, queue, cmp_cache, log, ops, err, edits, third>>

env == <<edits, third>>

locals == <<src_rel_paths, rep_rel_paths, only_in_rep, only_in_src, common_rel_paths>>

-----------------------------------------------------------------------------
(* Bounds of the model *)

\* loop iterations explored
MaxCycles == 2

\* third-party changes explored (specifications with a third party only)
MaxEdits == 1

-----------------------------------------------------------------------------
(* Paths and entries *)

source_dir == <<"S">>
replica_dir == <<"R">>
outside_dir == <<"X">>

NoPath == <<>>

Parent(p) == SubSeq(p, 1, Len(p) - 1)

Name(p) == p[Len(p)]

\* Path.relative_to(base_dir): the roots have one component
relative_to(p) == SubSeq(p, 2, Len(p))

\* base_dir / p
Join(base, rel) == base \o rel

IsUnder(p, d) == Len(p) > Len(d) /\ SubSeq(p, 1, Len(d)) = d

\* link targets: an outside regular file, an outside directory, nothing
Targets == {<<"X", "f">>, <<"X", "d">>, <<"X", "n">>}

Contents == {"x", "y"}

Mtimes == {1, 2}

\* st_size of a regular file with the given content
Size(c) == IF c = "zz" THEN 2 ELSE 1

DirE == [kind |-> "dir", content |-> "", mtime |-> 0, target |-> NoPath]

FileE(c, m) == [kind |-> "file", content |-> c, mtime |-> m, target |-> NoPath]

LinkE(t) == [kind |-> "link", content |-> "", mtime |-> 0, target |-> t]

Absent == [kind |-> "none", content |-> "", mtime |-> 0, target |-> NoPath]

FileEntries == {FileE(c, m) : c \in Contents, m \in Mtimes}

LinkEntries == {LinkE(t) : t \in Targets}

-----------------------------------------------------------------------------
(* The file system as pathlib / os see it *)

\* os.stat: the entry a path leads to with every symbolic link followed, or NoPath
RECURSIVE ResolveN(_, _, _)
ResolveN(f, p, fuel) ==
    IF Len(p) = 0 THEN NoPath
    ELSE IF Len(p) = 1 THEN (IF p \in DOMAIN f THEN p ELSE NoPath)
    ELSE LET par == ResolveN(f, Parent(p), fuel)
         IN IF par = NoPath THEN NoPath
            ELSE IF f[par].kind # "dir" THEN NoPath
            ELSE LET q == par \o <<Name(p)>>
                 IN IF q \notin DOMAIN f THEN NoPath
                    ELSE IF f[q].kind = "link"
                         THEN (IF fuel = 0 THEN NoPath ELSE ResolveN(f, f[q].target, fuel - 1))
                         ELSE q

\* a chain of links that revisits no entry is no longer than the number of entries
Resolve(f, p) == ResolveN(f, p, Cardinality(DOMAIN f))

\* os.lstat: the place of the path's last component, links followed in the parent only
LPath(f, p) ==
    IF Len(p) <= 1 THEN p
    ELSE LET par == Resolve(f, Parent(p))
         IN IF par = NoPath THEN NoPath
            ELSE IF f[par].kind # "dir" THEN NoPath
            ELSE par \o <<Name(p)>>

LExists(f, p) == LPath(f, p) # NoPath /\ LPath(f, p) \in DOMAIN f

exists(f, p) == Resolve(f, p) # NoPath

is_dir(f, p) == Resolve(f, p) # NoPath /\ f[Resolve(f, p)].kind = "dir"

is_file(f, p) == Resolve(f, p) # NoPath /\ f[Resolve(f, p)].kind = "file"

is_symlink(f, p) == LExists(f, p) /\ f[LPath(f, p)].kind = "link"

readlink(f, p) == f[LPath(f, p)].target

check_if_dir_and_not_sym(f, p) == is_dir(f, p) /\ ~is_symlink(f, p)

\* get_abspath: a link is replaced by its target, once; the paths and the link
\* targets of this model are absolute
get_abspath(f, directory_p) ==
    IF is_symlink(f, directory_p) THEN readlink(f, directory_p) ELSE directory_p

\* Path.iterdir: the entries of the directory the path leads to, each named
\* through that path
iterdir(f, d) ==
    IF Resolve(f, d) = NoPath THEN {}
    ELSE {d \o <<Name(q)>> :
            q \in {x \in DOMAIN f : Len(x) > 1 /\ Parent(x) = Resolve(f, d)}}

RECURSIVE iter_dir(_, _)

\* a slip: path_set.add(...) moved under an else, so that a directory that is
\* walked is not recorded itself
iter_dir_without_directories(f, directory) ==
    UNION { IF check_if_dir_and_not_sym(f, p) THEN iter_dir(f, p) ELSE {relative_to(p)}
            : p \in iterdir(f, directory) }

iter_dir(f, directory) ==
    UNION { {relative_to(p)} \cup
            (IF check_if_dir_and_not_sym(f, p) THEN iter_dir(f, p) ELSE {})
            : p \in iterdir(f, directory) }

\* p is a regular file of the source tree
SrcFile(f, p) == Join(source_dir, p) \in DOMAIN f /\ f[Join(source_dir, p)].kind = "file"

\* str(p).count(os.sep)
SepCount(rel) == Len(rel) - 1

\* the permutations of a finite set
Perms(S) ==
    LET n == Cardinality(S)
    IN {s \in [1..n -> S] : \A i, j \in 1..n : i # j => s[i] # s[j]}

\* a slip: `reverse` not passed on to sorted()
sort_ignoring_reverse(paths_set, reverse) ==
    {s \in Perms(paths_set) :
        \A i, j \in 1..Len(s) : i < j => SepCount(s[i]) <= SepCount(s[j])}

\* sorted() is stable and a set's iteration order is arbitrary: every order that
\* agrees with the key is a possible result
sort_paths_set_by_sep(paths_set, reverse) ==
    {s \in Perms(paths_set) :
        \A i, j \in 1..Len(s) :
            i < j => IF reverse THEN SepCount(s[i]) >= SepCount(s[j])
                                ELSE SepCount(s[i]) <= SepCount(s[j])}

-----------------------------------------------------------------------------
(* File-system mutations. Each yields [ok, fs]. `fail` is a failure the file
   system itself decides (EACCES, EIO, ...). A failed rmdir, unlink, mkdir or
   symlink changes nothing; a failing copy2 is taken to fail on opening its
   files; a failing copytree leaves what it had copied.                      *)

Remove(f, q) == [x \in DOMAIN f \ {q} |-> f[x]]

Put(f, q, e) == [x \in DOMAIN f \cup {q} |-> IF x = q THEN e ELSE f[x]]

Failed(f) == [ok |-> FALSE, fs |-> f]

Done(f) == [ok |-> TRUE, fs |-> f]

\* Path.rmdir
rmdir(f, p, fail) ==
    LET q == LPath(f, p)
    IN IF fail \/ ~LExists(f, p) THEN Failed(f)
       ELSE IF f[q].kind # "dir" \/ iterdir(f, q) # {} THEN Failed(f)
       ELSE Done(Remove(f, q))

\* Path.unlink
unlink(f, p, fail) ==
    LET q == LPath(f, p)
    IN IF fail \/ ~LExists(f, p) THEN Failed(f)
       ELSE IF f[q].kind = "dir" THEN Failed(f)
       ELSE Done(Remove(f, q))

\* Path.mkdir
mkdir(f, p, fail) ==
    LET q == LPath(f, p)
    IN IF fail \/ q = NoPath \/ LExists(f, p) THEN Failed(f)
       ELSE Done(Put(f, q, DirE))

\* os.symlink(target, p)
symlink(f, target, p, fail) ==
    LET q == LPath(f, p)
    IN IF fail \/ q = NoPath \/ LExists(f, p) THEN Failed(f)
       ELSE Done(Put(f, q, LinkE(target)))

\* the place open(p, 'wb') writes to: a link in the last component is followed,
\* a missing last component is created
RECURSIVE WritePathN(_, _, _)
WritePathN(f, p, fuel) ==
    LET q == LPath(f, p)
    IN IF q = NoPath THEN NoPath
       ELSE IF q \notin DOMAIN f THEN q
       ELSE IF f[q].kind = "dir" THEN NoPath
       ELSE IF f[q].kind = "link"
            THEN (IF fuel = 0 THEN NoPath ELSE WritePathN(f, f[q].target, fuel - 1))
       ELSE q

WritePath(f, p) == WritePathN(f, p, Cardinality(DOMAIN f))

\* shutil.copy2(src, dst, follow_symlinks=False): a directory dst means dst/name(src);
\* a link src is recreated as a link; a regular src is written to dst through any
\* link in dst, with the modification time copied along
copy2(f, src, dst, fail) ==
    LET dst2 == IF is_dir(f, dst) THEN dst \o <<Name(src)>> ELSE dst
        w == WritePath(f, dst2)
    IN IF is_symlink(f, src) THEN symlink(f, readlink(f, src), dst2, fail)
       ELSE IF fail \/ ~is_file(f, src) \/ w = NoPath THEN Failed(f)
       ELSE IF Resolve(f, dst2) = Resolve(f, src) THEN Failed(f)
       ELSE Done(Put(f, w, f[Resolve(f, src)]))

\* what copytree copies, as paths relative to src (<<>> is dst itself): all of
\* src when it succeeds; when it fails, any part closed under parents, since it
\* goes on after an entry that failed and raises at the end
CopyParts(f, src, fail) ==
    LET all == {<<>>} \cup iter_dir(f, src)
    IN IF fail
       THEN {P \in SUBSET all : P # all /\ \A r \in P : r # <<>> => Parent(r) \in P}
       ELSE {all}

\* shutil.copytree(src, dst, symlinks=True): dst is made (it must not exist), then
\* the entries under src are copied, links as links
copytree(f, src, dst, fail, part) ==
    LET made == {Join(dst, r) : r \in part}
    IN IF LPath(f, dst) = NoPath \/ LExists(f, dst) THEN Failed(f)
       ELSE [ok |-> ~fail,
             fs |-> [x \in DOMAIN f \cup made |->
                       IF x = dst THEN DirE
                       ELSE IF x \in made THEN f[Join(src, SubSeq(x, Len(dst) + 1, Len(x)))]
                       ELSE f[x]]]

-----------------------------------------------------------------------------
(* filecmp.cmp(f1, f2), shallow=True, with its module-level cache *)

\* filecmp._sig: (type, size, mtime) of what the path leads to
sig(f, p) ==
    LET e == f[Resolve(f, p)]
    IN <<e.kind, Size(e.content), e.mtime>>

\* filecmp._do_cmp: byte comparison
do_cmp(f, f1, f2) == f[Resolve(f, f1)].content = f[Resolve(f, f2)].content

cmp(f, cache, f1, f2) ==
    LET s1 == sig(f, f1)
        s2 == sig(f, f2)
        key == <<f1, f2, s1, s2>>
    IN IF s1[1] # "file" \/ s2[1] # "file" THEN FALSE
       ELSE IF s1 = s2 THEN TRUE
       ELSE IF s1[2] # s2[2] THEN FALSE
       ELSE IF key \in DOMAIN cache THEN cache[key]
       ELSE do_cmp(f, f1, f2)

\* a slip: the `not` of `if not filecmp.cmp(src_path, rep_path):` left out
files_differ_without_not(f, cache, src_path, rep_path) == cmp(f, cache, src_path, rep_path)

\* `if not filecmp.cmp(src_path, rep_path):`
files_differ(f, cache, src_path, rep_path) == ~cmp(f, cache, src_path, rep_path)

\* the cache after cmp(f1, f2); it is cleared only beyond 100 entries, which
\* the paths of this model never reach
cache_after(f, cache, f1, f2) ==
    LET s1 == sig(f, f1)
        s2 == sig(f, f2)
        key == <<f1, f2, s1, s2>>
    IN IF s1[1] # "file" \/ s2[1] # "file" \/ s1 = s2 \/ s1[2] # s2[2] THEN cache
       ELSE IF key \in DOMAIN cache THEN cache
       ELSE [k \in DOMAIN cache \cup {key} |->
                IF k = key THEN do_cmp(f, f1, f2) ELSE cache[k]]

-----------------------------------------------------------------------------
(* Log records, mutation records, errors *)

Info(msg, path, target) == [lvl |-> "INFO", msg |-> msg, path |-> path, target |-> target]

Debug(msg) == [lvl |-> "DEBUG", msg |-> msg, path |-> NoPath, target |-> NoPath]

Error(msg, path) == [lvl |-> "ERROR", msg |-> msg, path |-> path, target |-> NoPath]

Op(op, path) == [op |-> op, path |-> path]

NoErr == [op |-> "", path |-> NoPath, kind |-> ""]

\* the exception of a file-system call that failed: of class OSError or one
\* of its subclasses; op is the call, path its argument
Err(op, path) == [op |-> op, path |-> path, kind |-> "OSError"]

\* `raise kind(...)` by main itself
Raised(kind, path) == [op |-> "raise", path |-> path, kind |-> kind]

\* what one step of main did: the file system after it, the records logged, the
\* mutations done, the exception raised (or NoErr), and whether it set `updated`
Outcome(f, l, o, e, u) == [fs |-> f, log |-> l, ops |-> o, err |-> e, upd |-> u]

Skip(f) == Outcome(f, <<>>, <<>>, NoErr, FALSE)

\* a call made outside any try block: its exception propagates unlogged
Uncaught(f, before, done, op, path) == Outcome(f, before, done, Err(op, path), TRUE)

\* try: <call> / except Exception: logger.error(msg, path); raise
\* `r` is the call's result, `before` the records logged before it, `done` the
\* mutations of the step before it
Try(r, before, done, op, path, msg) ==
    IF r.ok
    THEN Outcome(r.fs, before, done \o <<Op(op, path)>>, NoErr, TRUE)
    ELSE Outcome(r.fs, before \o <<Error(msg, path)>>, done, Err(op, path), TRUE)

-----------------------------------------------------------------------------
(* The bodies of main's loops, one entry each *)

\* a loop body that does not assign `updated` itself (main assigns it before
\* the removal loop and before the creation loop)
KeepUpdated(o) == [o EXCEPT !.upd = FALSE]

\* rm_files_in_set, the body of `for p in set_paths_sorted`
RemoveOutcome(f, base_dir, p, fail) ==
    LET full_path == Join(base_dir, p)
    IN IF check_if_dir_and_not_sym(f, full_path)
       THEN KeepUpdated(Try(rmdir(f, full_path, fail),
                <<Info("Removing directory", full_path, NoPath)>>, <<>>,
                "rmdir", full_path, "Failed to remove directory"))
       ELSE IF is_symlink(f, full_path)
       THEN KeepUpdated(Try(unlink(f, full_path, fail),
                <<Info("Removing symlink", full_path, readlink(f, full_path))>>, <<>>,
                "unlink", full_path, "Failed to delete symlink"))
       ELSE KeepUpdated(Try(unlink(f, full_path, fail),
                <<Info("Removing file", full_path, NoPath)>>, <<>>,
                "unlink", full_path, "Failed to delete symlink"))

\* main, the body of `for p in common_rel_paths`
CompareOutcome(f, cache, p, fail1, fail2) ==
    LET src_path == Join(source_dir, p)
        rep_path == Join(replica_dir, p)
    IN IF check_if_dir_and_not_sym(f, src_path) THEN Skip(f)
       ELSE IF is_symlink(f, src_path)
       THEN IF ~is_symlink(f, rep_path)
            THEN Outcome(f, <<>>, <<>>, Err("readlink", rep_path), FALSE)
            ELSE IF readlink(f, src_path) = readlink(f, rep_path) THEN Skip(f)
            ELSE LET u == unlink(f, rep_path, fail1)
                 IN IF ~u.ok
                    THEN Uncaught(f, <<>>, <<>>, "unlink", rep_path)
                    ELSE Try(copy2(u.fs, src_path, rep_path, fail2),
                             <<Info("Updating symlink", rep_path, readlink(f, src_path))>>,
                             <<Op("unlink", rep_path)>>,
                             "copy2", rep_path, "Failed to create symlink")
       ELSE IF ~exists(f, src_path) \/ ~exists(f, rep_path)
            THEN Outcome(f, <<>>, <<>>, Err("stat", rep_path), FALSE)
            ELSE IF ~files_differ(f, cache, src_path, rep_path) THEN Skip(f)
            ELSE Try(copy2(f, src_path, rep_path, fail2),
                     <<Info("Updating file", rep_path, NoPath)>>, <<>>,
                     "copy2", rep_path, "Failed to update file")

\* main, the body of `for p in only_in_src_sorted`
CreateOutcome(f, p, fail) ==
    LET src_path == Join(source_dir, p)
        rep_path == Join(replica_dir, p)
    IN IF check_if_dir_and_not_sym(f, src_path)
       THEN KeepUpdated(Try(mkdir(f, rep_path, fail),
                <<Info("Creating directory", rep_path, NoPath)>>, <<>>,
                "mkdir", rep_path, "Failed to create directory"))
       ELSE IF is_symlink(f, src_path)
       THEN KeepUpdated(Try(copy2(f, src_path, rep_path, fail),
                <<Info("Creating symlink", rep_path, readlink(f, src_path))>>, <<>>,
                "copy2", rep_path, "Failed to create file/symlink"))
       ELSE KeepUpdated(Try(copy2(f, src_path, rep_path, fail),
                <<Info("Creating file", rep_path, NoPath)>>, <<>>,
                "copy2", rep_path, "Failed to create file/symlink"))

\* a slip: a link to a directory taken for a directory (is_dir alone)
BootstrapLine_following_links(f, p) ==
    LET src_full_path == Join(source_dir, p)
        rep_full_path == Join(replica_dir, p)
    IN IF is_dir(f, src_full_path)
       THEN Info("Creating directory", rep_full_path, NoPath)
       ELSE IF is_symlink(f, src_full_path)
       THEN Info("Creating symlink", rep_full_path, readlink(f, src_full_path))
       ELSE Info("Creating file", rep_full_path, NoPath)

\* main, the body of `for p in src_rel_paths_sorted` after the bootstrap copy
BootstrapLine(f, p) ==
    LET src_full_path == Join(source_dir, p)
        rep_full_path == Join(replica_dir, p)
    IN IF check_if_dir_and_not_sym(f, src_full_path)
       THEN Info("Creating directory", rep_full_path, NoPath)
       ELSE IF is_symlink(f, src_full_path)
       THEN Info("Creating symlink", rep_full_path, readlink(f, src_full_path))
       ELSE Info("Creating file", rep_full_path, NoPath)

\* main, the bootstrap branch as a whole
BootstrapOutcome(f, sorted, fail, part) ==
    LET r == copytree(f, source_dir, replica_dir, fail, part)
        o == Try(r, <<Info("Creating directory", replica_dir, NoPath)>>, <<>>,
                 "copytree", replica_dir, "Failed to create replica directory")
    IN IF r.ok
       THEN Outcome(o.fs, o.log \o [i \in 1..Len(sorted) |-> BootstrapLine(o.fs, sorted[i])],
                    o.ops, o.err, TRUE)
       ELSE o

-----------------------------------------------------------------------------
(* Initial states: every source tree and every replica tree over InitRel *)

InitRel == {<<"a">>, <<"a", "a">>, <<"a", "b">>}

Trees ==
    {t \in [InitRel -> {Absent, DirE} \cup FileEntries \cup LinkEntries] :
        \A p \in InitRel : (Len(p) > 1 /\ t[p] # Absent) => t[Parent(p)] = DirE}

Present(t) == {p \in InitRel : t[p] # Absent}

\* what lies outside both trees: a regular file and an empty directory
OutsideFs ==
    [x \in {outside_dir, <<"X", "f">>, <<"X", "d">>} |->
        IF x = <<"X", "f">> THEN FileE("x", 1) ELSE DirE]

MkFs(st, rt, hasReplica) ==
    LET sp == {Join(source_dir, p) : p \in Present(st)}
        rp == IF hasReplica THEN {replica_dir} \cup {Join(replica_dir, p) : p \in Present(rt)}
              ELSE {}
    IN [x \in DOMAIN OutsideFs \cup {source_dir} \cup sp \cup rp |->
          IF x \in DOMAIN OutsideFs THEN OutsideFs[x]
          ELSE IF x = source_dir \/ x = replica_dir THEN DirE
          ELSE IF x \in sp THEN st[relative_to(x)]
          ELSE rt[relative_to(x)]]

EmptyTree == [p \in InitRel |-> Absent]

InitFs ==
    {MkFs(st, rt, TRUE) : st \in Trees, rt \in Trees}
    \cup {MkFs(st, EmptyTree, FALSE) : st \in Trees}

InitRest ==
    /\ pc = "scan"
    /\ cycle = 0
    /\ updated = FALSE
    /\ src_rel_paths = {}
    /\ rep_rel_paths = {}
    /\ only_in_rep = {}
    /\ only_in_src = {}
    /\ common_rel_paths = {}
    /\ queue = <<>>
    /\ cmp_cache = [k \in {} |-> TRUE]
    /\ log = <<>>
    /\ ops = <<>>
    /\ err = NoErr
    /\ edits = 0
    /\ third = {}

Init == fs \in InitFs /\ InitRest

-----------------------------------------------------------------------------
(* main's loop *)

\* a slip: the `raise` after logger.error left out
Raise_swallowed(e, goon) == goon

\* where the exception leaves main, or where the loop goes on
Raise(e, goon) == IF e # NoErr THEN "crashed" ELSE goon

\* the effect of one loop body on the state
Apply(o, goon) ==
    /\ fs' = o.fs
    /\ log' = log \o o.log
    /\ ops' = ops \o o.ops
    /\ err' = o.err
    /\ updated' = (updated \/ o.upd)
    /\ pc' = Raise(o.err, goon)

\* a slip: the `not` of `if not replica_dir.exists():` left out
replica_branch_without_not(f) == IF exists(f, replica_dir) THEN "bootstrap" ELSE "snapshot"

\* `if not replica_dir.exists():`
replica_branch(f) == IF ~exists(f, replica_dir) THEN "bootstrap" ELSE "snapshot"

\* `while True:` down to `if not replica_dir.exists():`
StartCycle ==
    /\ pc = "scan"
    /\ cycle < MaxCycles
    /\ updated' = FALSE
    /\ log' = <<Debug("Checking directories synchronization")>>
    /\ ops' = <<>>
    /\ src_rel_paths' = iter_dir(fs, source_dir)
    /\ pc' = replica_branch(fs)
    /\ UNCHANGED <<fs, cycle, rep_rel_paths, only_in_rep, only_in_src,
                   common_rel_paths, queue, cmp_cache, err, env>>

\* a slip: the bootstrap branch going on to the next iteration without its sleep
Bootstrap_without_sleep(F) ==
    /\ pc = "bootstrap"
    /\ \E fail \in F, sorted \in sort_paths_set_by_sep(src_rel_paths, FALSE) :
          \E part \in CopyParts(fs, source_dir, fail) :
             Apply(BootstrapOutcome(fs, sorted, fail, part), "scan")
    /\ UNCHANGED <<cycle, locals, queue, cmp_cache, env>>

\* the bootstrap branch: copytree, one log line per entry, then on to the sleep
Bootstrap(F) ==
    /\ pc = "bootstrap"
    /\ \E fail \in F, sorted \in sort_paths_set_by_sep(src_rel_paths, FALSE) :
          \E part \in CopyParts(fs, source_dir, fail) :
             Apply(BootstrapOutcome(fs, sorted, fail, part), "sleep")
    /\ UNCHANGED <<cycle, locals, queue, cmp_cache, env>>

\* the replica snapshot, the two differences, and the start of rm_files_in_set
SnapshotReplica ==
    /\ pc = "snapshot"
    /\ rep_rel_paths' = iter_dir(fs, replica_dir)
    /\ only_in_rep' = rep_rel_paths' \ src_rel_paths
    /\ only_in_src' = src_rel_paths \ rep_rel_paths'
    /\ updated' = (updated \/ only_in_rep' # {})
    /\ log' = IF only_in_rep' # {}
              THEN log \o <<Debug("Files only in replica directory")>> ELSE log
    /\ queue' \in sort_paths_set_by_sep(only_in_rep', TRUE)
    /\ pc' = "delete"
    /\ UNCHANGED <<fs, cycle, src_rel_paths, common_rel_paths, cmp_cache, ops, err, env>>

\* rm_files_in_set: one path of set_paths_sorted
RemoveEntry(F) ==
    /\ pc = "delete"
    /\ queue # <<>>
    /\ \E fail \in F : Apply(RemoveOutcome(fs, replica_dir, Head(queue), fail), "delete")
    /\ queue' = Tail(queue)
    /\ UNCHANGED <<cycle, locals, cmp_cache, env>>

\* a slip: the common paths taken from a new walk of the replica instead of
\* from the snapshot
BeginCommon_walking_again ==
    /\ pc = "delete"
    /\ queue = <<>>
    /\ common_rel_paths' = src_rel_paths \cap iter_dir(fs, replica_dir)
    /\ queue' \in Perms(common_rel_paths')
    /\ pc' = "common"
    /\ UNCHANGED <<fs, cycle, updated, src_rel_paths, rep_rel_paths, only_in_rep,
                   only_in_src, cmp_cache, log, ops, err, env>>

\* a slip: the comparison loop begun while removals are still to be done
BeginCommon_leaving_early ==
    /\ pc = "delete"
    /\ common_rel_paths' = src_rel_paths \cap rep_rel_paths
    /\ queue' \in Perms(common_rel_paths')
    /\ pc' = "common"
    /\ UNCHANGED <<fs, cycle, updated, src_rel_paths, rep_rel_paths, only_in_rep,
                   only_in_src, cmp_cache, log, ops, err, env>>

\* the intersection, and the start of `for p in common_rel_paths`
BeginCommon ==
    /\ pc = "delete"
    /\ queue = <<>>
    /\ common_rel_paths' = src_rel_paths \cap rep_rel_paths
    /\ queue' \in Perms(common_rel_paths')
    /\ pc' = "common"
    /\ UNCHANGED <<fs, cycle, updated, src_rel_paths, rep_rel_paths, only_in_rep,
                   only_in_src, cmp_cache, log, ops, err, env>>

\* one path of common_rel_paths
CompareEntry(F) ==
    /\ pc = "common"
    /\ queue # <<>>
    /\ \E fail1, fail2 \in F :
          Apply(CompareOutcome(fs, cmp_cache, Head(queue), fail1, fail2), "common")
    /\ cmp_cache' =
          LET src_path == Join(source_dir, Head(queue))
              rep_path == Join(replica_dir, Head(queue))
          IN IF is_file(fs, src_path) /\ ~is_symlink(fs, src_path) /\ exists(fs, rep_path)
             THEN cache_after(fs, cmp_cache, src_path, rep_path)
             ELSE cmp_cache
    /\ queue' = Tail(queue)
    /\ UNCHANGED <<cycle, locals, env>>

\* a slip: `updated = True` left out of the creation branch
BeginCreate_without_updated ==
    /\ pc = "common"
    /\ queue = <<>>
    /\ updated' = updated
    /\ log' = IF only_in_src # {}
              THEN log \o <<Debug("Files only in source directory")>> ELSE log
    /\ queue' \in sort_paths_set_by_sep(only_in_src, FALSE)
    /\ pc' = "create"
    /\ UNCHANGED <<fs, cycle, locals, cmp_cache, ops, err, env>>

\* `if len(only_in_src) > 0:` and the sort before the creation loop
BeginCreate ==
    /\ pc = "common"
    /\ queue = <<>>
    /\ updated' = (updated \/ only_in_src # {})
    /\ log' = IF only_in_src # {}
              THEN log \o <<Debug("Files only in source directory")>> ELSE log
    /\ queue' \in sort_paths_set_by_sep(only_in_src, FALSE)
    /\ pc' = "create"
    /\ UNCHANGED <<fs, cycle, locals, cmp_cache, ops, err, env>>

\* one path of only_in_src_sorted
CreateEntry(F) ==
    /\ pc = "create"
    /\ queue # <<>>
    /\ \E fail \in F : Apply(CreateOutcome(fs, Head(queue), fail), "create")
    /\ queue' = Tail(queue)
    /\ UNCHANGED <<cycle, locals, cmp_cache, env>>

\* `if not updated:` at the end of a steady iteration
EndCycle ==
    /\ pc = "create"
    /\ queue = <<>>
    /\ log' = IF ~updated
              THEN log \o <<Debug("already synchronized")>> ELSE log
    /\ pc' = "sleep"
    /\ UNCHANGED <<fs, cycle, updated, locals, queue, cmp_cache, ops, err, env>>

\* time.sleep(args.sync_interval), then the next iteration
Sleep ==
    /\ pc = "sleep"
    /\ cycle' = cycle + 1
    /\ pc' = "scan"
    /\ UNCHANGED <<fs, updated, locals, queue, cmp_cache, log, ops, err, env>>

NoFault == {FALSE}

AnyFault == BOOLEAN

Program(F) ==
    \/ StartCycle
    \/ Bootstrap(F)
    \/ SnapshotReplica
    \/ RemoveEntry(F)
    \/ BeginCommon
    \/ CompareEntry(F)
    \/ BeginCreate
    \/ CreateEntry(F)
    \/ EndCycle
    \/ Sleep

\* the program alone on a file system whose calls fail only for what the
\* trees hold
Next == Program(NoFault)

Spec == Init /\ [][Next]_vars

\* the program on a file system whose calls may also fail for reasons of its
\* own (permissions, I/O errors)
NextFault == Program(AnyFault)

SpecFault == Init /\ [][NextFault]_vars

\* main is at a statement of an iteration: it is not asleep, has not ended with
\* an error, and the iterations explored are not used up
Running == pc \notin {"sleep", "crashed"} /\ ~(pc = "scan" /\ cycle >= MaxCycles)

\* main is never stopped from outside: while it is at a statement it executes
\* it. This is weak fairness of Next with main's enabling condition written out
Progress == []<>(~Running) \/ []<><<Next>>_vars

\* the program as a process that runs on: its steps are taken, its sleeps end
SpecLive == Init /\ [][Next]_vars /\ Progress /\ WF_vars(Sleep)


-----------------------------------------------------------------------------
(* A third party changing the trees *)

\* between two iterations (while main sleeps) a third party rewrites a regular
\* file of the source: another content, of any size and modification time
ChangeSourceFile ==
    /\ pc = "sleep"
    /\ edits < MaxEdits
    /\ \E p \in iter_dir(fs, source_dir), c \in Contents \cup {"zz"}, m \in Mtimes :
          /\ SrcFile(fs, p)
          /\ c # fs[Join(source_dir, p)].content
          /\ fs' = Put(fs, Join(source_dir, p), FileE(c, m))
          /\ third' = third \cup {[path |-> Join(source_dir, p),
                                   old |-> fs[Join(source_dir, p)], cycle |-> cycle]}
    /\ edits' = edits + 1
    /\ UNCHANGED <<pc, cycle, updated, locals, queue, cmp_cache, log, ops, err>>

NextEdit == Next \/ ChangeSourceFile

SpecEdit == Init /\ [][NextEdit]_vars

\* the entries the third party of SpecRace leaves at a path
RaceEntries == {Absent, DirE, FileE("y", 2), LinkE(<<"X", "d">>)}

\* during an iteration a third party removes, creates or replaces one entry of
\* the source or of the replica tree
Interfere ==
    /\ pc \in {"bootstrap", "snapshot", "delete", "common", "create"}
    /\ edits < MaxEdits
    /\ \E root \in {source_dir, replica_dir}, p \in InitRel, e \in RaceEntries :
          LET q == Join(root, p)
              old == IF q \in DOMAIN fs THEN fs[q] ELSE Absent
          IN /\ root \in DOMAIN fs
             /\ check_if_dir_and_not_sym(fs, Parent(q))
             /\ old # e
             /\ iterdir(fs, q) = {}
             /\ fs' = IF e = Absent THEN Remove(fs, q) ELSE Put(fs, q, e)
             /\ third' = third \cup {[path |-> q, old |-> old, cycle |-> cycle]}
    /\ edits' = edits + 1
    /\ UNCHANGED <<pc, cycle, updated, locals, queue, cmp_cache, log, ops, err>>

\* trees whose regular files are all alike
PlainTrees ==
    {t \in Trees : \A p \in InitRel :
        t[p] \in {Absent, DirE, FileE("x", 1), LinkE(<<"X", "f">>), LinkE(<<"X", "d">>)}}

\* the replica is absent, or holds at every path it shares with the source an
\* entry of the source's kind
SameKinds(st) ==
    {t \in PlainTrees :
        \A p \in InitRel : (st[p] # Absent /\ t[p] # Absent) => st[p].kind = t[p].kind}

InitRaceFs ==
    UNION {{MkFs(st, rt, TRUE) : rt \in SameKinds(st)} : st \in PlainTrees}
    \cup {MkFs(st, EmptyTree, FALSE) : st \in PlainTrees}

InitRace == fs \in InitRaceFs /\ InitRest

NextRace == Next \/ Interfere

SpecRace == InitRace /\ [][NextRace]_vars

-----------------------------------------------------------------------------
(* main before its loop: the tests of the source root *)

\* a slip: the two tests of args.source_dir left out
Startup_without_checks ==
    /\ pc = "start"
    /\ log' = <<[Debug("Source directory is") EXCEPT !.path = get_abspath(fs, source_dir)],
                [Debug("Replica directory is") EXCEPT !.path = get_abspath(fs, replica_dir)]>>
    /\ pc' = "scan"
    /\ UNCHANGED <<fs, cycle, updated, locals, queue, cmp_cache, ops, err, env>>

\* main from `source_dir = args.source_dir` to the `while True:`
Startup ==
    /\ pc = "start"
    /\ IF ~exists(fs, source_dir)
       THEN /\ log' = <<Error("Input source directory does not exist", source_dir)>>
            /\ err' = Raised("FileExistsError", source_dir)
            /\ pc' = "crashed"
       ELSE IF ~is_dir(fs, source_dir)
       THEN /\ log' = <<Error("Input source directory is not a valid directory", source_dir)>>
            /\ err' = Raised("FileExistsError", source_dir)
            /\ pc' = "crashed"
       ELSE /\ log' = <<[Debug("Source directory is") EXCEPT !.path = get_abspath(fs, source_dir)],
                        [Debug("Replica directory is") EXCEPT !.path = get_abspath(fs, replica_dir)]>>
            /\ err' = NoErr
            /\ pc' = "scan"
    /\ UNCHANGED <<fs, cycle, updated, locals, queue, cmp_cache, ops, env>>

\* what args.source_dir may name when it is not a real directory: nothing, a
\* regular file, a link to a regular file, a link to nothing
BadRoots == {Absent, FileE("x", 1), LinkE(<<"X", "f">>), LinkE(<<"X", "n">>)}

\* the file system with the source root replaced by e, nothing beneath it
WithRoot(f, e) ==
    LET keep == {x \in DOMAIN f : x # source_dir /\ ~IsUnder(x, source_dir)}
    IN [x \in keep \cup (IF e = Absent THEN {} ELSE {source_dir}) |->
          IF x = source_dir THEN e ELSE f[x]]

\* source roots that are real directories (get_abspath leaves them as they
\* are) over replicas present or absent, and the roots that are no directory
InitStartFs ==
    {MkFs(st, rt, TRUE) : st \in PlainTrees, rt \in PlainTrees}
    \cup {MkFs(st, EmptyTree, FALSE) : st \in PlainTrees}
    \cup {WithRoot(MkFs(EmptyTree, rt, TRUE), e) : rt \in PlainTrees, e \in BadRoots}
    \cup {WithRoot(MkFs(EmptyTree, EmptyTree, FALSE), e) : e \in BadRoots}

InitStart ==
    /\ fs \in InitStartFs
    /\ pc = "start"
    /\ cycle = 0
    /\ updated = FALSE
    /\ src_rel_paths = {}
    /\ rep_rel_paths = {}
    /\ only_in_rep = {}
    /\ only_in_src = {}
    /\ common_rel_paths = {}
    /\ queue = <<>>
    /\ cmp_cache = [k \in {} |-> TRUE]
    /\ log = <<>>
    /\ ops = <<>>
    /\ err = NoErr
    /\ edits = 0
    /\ third = {}

NextStart == Startup \/ Next

\* main from its first statement after the logger is set up
SpecStart == InitStart /\ [][NextStart]_vars

-----------------------------------------------------------------------------
(* Trees with links that lead back into the tree or to a directory that holds
   entries: the inputs of the tree walk                                      *)

\* a link may lead to the source root, to the path a of the source (its own
\* path, or its parent's), to the outside directory, or to nothing
WalkEntries ==
    {Absent, DirE, FileE("x", 1), LinkE(source_dir), LinkE(<<"S", "a">>),
     LinkE(<<"X", "d">>), LinkE(<<"X", "f">>), LinkE(<<"X", "n">>)}

WalkTrees ==
    {t \in [InitRel -> WalkEntries] :
        \A p \in InitRel : (Len(p) > 1 /\ t[p] # Absent) => t[Parent(p)] = DirE}

\* the outside directory holds a regular file
InitWalkFs ==
    {Put(MkFs(st, rt, TRUE), <<"X", "d", "a">>, FileE("x", 1)) :
        st \in WalkTrees, rt \in PlainTrees}
    \cup {Put(MkFs(st, EmptyTree, FALSE), <<"X", "d", "a">>, FileE("x", 1)) :
             st \in WalkTrees}

InitWalk == fs \in InitWalkFs /\ InitRest

\* the program over these trees
SpecWalk == InitWalk /\ [][Next]_vars

-----------------------------------------------------------------------------
(* Notions the properties below are stated with *)

SrcE(f, p) == f[Join(source_dir, p)]

\* the replica's entry at relative path p, as lstat finds it
RepE(f, p) ==
    IF LExists(f, Join(replica_dir, p)) THEN f[LPath(f, Join(replica_dir, p))] ELSE Absent

\* the replica mirrors the source: equal walked path sets, every regular file of
\* the source a regular file of the same content, every link a link of the same target
Converged(f) ==
    /\ exists(f, replica_dir)
    /\ iter_dir(f, replica_dir) = iter_dir(f, source_dir)
    /\ \A p \in iter_dir(f, source_dir) :
          /\ SrcE(f, p).kind = "file" =>
                (RepE(f, p).kind = "file" /\ RepE(f, p).content = SrcE(f, p).content)
          /\ SrcE(f, p).kind = "link" =>
                (RepE(f, p).kind = "link" /\ RepE(f, p).target = SrcE(f, p).target)

InfoLines(l) == SelectSeq(l, LAMBDA r : r.lvl = "INFO")

-----------------------------------------------------------------------------
(* C1 *)

\* C1 (convergence): with no third party and no failing call, every iteration
\* that reaches its sleep leaves the replica mirroring the source.
C1_Convergence == (pc = "sleep") => Converged(fs)

-----------------------------------------------------------------------------
(* C2 *)

\* C2 (idempotence): once an iteration has ended with the replica mirroring the
\* source, no step of a later iteration changes the file system, performs a
\* mutation or logs a create, update or remove line.
C2_Idempotence ==
    [][(cycle >= 1 /\ Converged(fs)) =>
          /\ fs' = fs
          /\ pc # "scan" => (ops' = ops /\ InfoLines(log') = InfoLines(log))
          /\ pc = "scan" => (ops' = <<>> /\ InfoLines(log') = <<>>)
          /\ pc' # "crashed"]_vars

\* a second iteration has run to its sleep over a mirrored tree holding a
\* regular file, a link and a directory, and did nothing
C2_Witness ==
    /\ cycle = 1
    /\ pc = "sleep"
    /\ Converged(fs)
    /\ ops = <<>>
    /\ InfoLines(log) = <<>>
    /\ {SrcE(fs, p).kind : p \in common_rel_paths} = {"dir", "file", "link"}

-----------------------------------------------------------------------------
(* C3 *)

\* C3 (symlink fidelity): whenever the engine handles a path that is a symbolic
\* link in the source (in the comparison loop, in the creation loop or in the
\* bootstrap copy), the step leaves a link of the same target at that path of
\* the replica.
C3_SymlinkFidelity ==
    [][/\ (pc \in {"common", "create"} /\ queue # <<>>
              /\ is_symlink(fs, Join(source_dir, Head(queue)))) =>
            /\ RepE(fs', Head(queue)).kind = "link"
            /\ RepE(fs', Head(queue)).target = readlink(fs, Join(source_dir, Head(queue)))
       /\ pc = "bootstrap" =>
            \A p \in src_rel_paths :
                is_symlink(fs, Join(source_dir, p)) =>
                    /\ RepE(fs', p).kind = "link"
                    /\ RepE(fs', p).target = readlink(fs, Join(source_dir, p))]_vars

-----------------------------------------------------------------------------
(* C4 *)

\* C4 (deletion safety): every step of the delete loop removes its path without
\* error, a directory is empty when its removal is attempted, at the end of the
\* loop no replica-only path is left, and every removal under a directory
\* precedes the removal of that directory.
C4_DeletionSafety ==
    /\ [][(pc = "delete" /\ queue # <<>>) =>
             /\ check_if_dir_and_not_sym(fs, Join(replica_dir, Head(queue))) =>
                    iterdir(fs, Join(replica_dir, Head(queue))) = {}
             /\ ~LExists(fs', Join(replica_dir, Head(queue)))
             /\ err' = NoErr]_vars
    /\ []((pc = "delete" /\ queue = <<>>) =>
             \A p \in only_in_rep : ~LExists(fs, Join(replica_dir, p)))
    /\ [](\A i, j \in 1..Len(ops) :
             (ops[i].op = "rmdir" /\ ops[j].op \in {"rmdir", "unlink"}
                 /\ IsUnder(ops[j].path, ops[i].path)) => j < i)

\* a replica-only directory was removed after the two entries it held
C4_Witness ==
    /\ pc = "delete"
    /\ queue = <<>>
    /\ Len(ops) = 3
    /\ ops[3] = Op("rmdir", <<"R", "a">>)
    /\ {ops[1].path, ops[2].path} = {<<"R", "a", "a">>, <<"R", "a", "b">>}

-----------------------------------------------------------------------------
(* C5 *)

\* C5 (creation ordering): at every step of the creation loop the parent of the
\* path being created is a real directory of the replica, and a directory's
\* creation line precedes the creation line of every entry beneath it.
C5_CreationOrdering ==
    /\ [][(pc = "create" /\ queue # <<>>) =>
             check_if_dir_and_not_sym(fs, Parent(Join(replica_dir, Head(queue))))]_vars
    /\ [](\A i, j \in 1..Len(log) :
             (log[i].msg = "Creating directory"
                 /\ log[j].msg \in {"Creating directory", "Creating file", "Creating symlink"}
                 /\ IsUnder(log[j].path, log[i].path)) => i < j)

-----------------------------------------------------------------------------
(* C6 *)

\* C6 (change detection): when a third party has rewritten a regular file of
\* the source between two iterations while the replica held a regular file of
\* the previous content, the comparison of that path in the next iteration
\* overwrites the replica file with the source's content and logs exactly one
\* "Updating file" line for it.
C6_ChangeDetection ==
    [][\A t \in third :
          (/\ pc = "common"
           /\ queue # <<>>
           /\ Join(source_dir, Head(queue)) = t.path
           /\ cycle = t.cycle + 1
           /\ SrcFile(fs, Head(queue))
           /\ RepE(fs, Head(queue)).kind = "file"
           /\ RepE(fs, Head(queue)).content = t.old.content
           /\ SrcE(fs, Head(queue)).content # t.old.content) =>
              /\ RepE(fs', Head(queue)).kind = "file"
              /\ RepE(fs', Head(queue)).content = SrcE(fs, Head(queue)).content
              /\ InfoLines(log') = InfoLines(log) \o
                    <<Info("Updating file", Join(replica_dir, Head(queue)), NoPath)>>]_vars

-----------------------------------------------------------------------------
(* C7 *)

MutationOps == {"rmdir", "unlink", "mkdir", "copy2", "copytree"}

\* C7 (failures are logged): whenever a file-system mutation has failed, the
\* last record of the log is an error record naming the path of the failed call.
C7_FailuresLogged ==
    (err.op \in MutationOps) =>
        /\ Len(log) > 0
        /\ log[Len(log)].lvl = "ERROR"
        /\ log[Len(log)].path = err.path

-----------------------------------------------------------------------------
(* C8 *)

\* C8 (fail-stop): once a call of an iteration has failed, main has ended with
\* that error: no later step changes the file system or performs a mutation.
C8_FailStop ==
    /\ [](err # NoErr => pc = "crashed")
    /\ [][err # NoErr => (fs' = fs /\ ops' = ops /\ pc' = "crashed" /\ err' = err)]_vars

\* a mutation failed in a loop that had entries left to handle
C8_Witness ==
    /\ pc = "crashed"
    /\ err.op \in MutationOps
    /\ queue # <<>>
    /\ ops # <<>>

-----------------------------------------------------------------------------
(* C9 *)

\* C9 (third-party interference): after a third party has changed a tree during
\* an iteration, the loop keeps running, and the next iteration that runs to
\* its sleep leaves the replica mirroring the source.
C9_SelfHealing ==
    /\ edits >= 1 => pc # "crashed"
    /\ (pc = "sleep" /\ \E t \in third : cycle > t.cycle) => Converged(fs)

-----------------------------------------------------------------------------
(* C10 *)

\* C10 (sync-loop state machine): an iteration takes the bootstrap branch exactly
\* when the replica root does not exist when it is tested; a bootstrap iteration
\* performs the recursive copy and nothing else and goes on to the sleep; once
\* an iteration has ended the replica root is a real directory, every later
\* iteration is a steady one, and no step removes the replica root.
C10_StateMachine ==
    /\ [][pc = "scan" => /\ pc' = "bootstrap" <=> ~exists(fs, replica_dir)
                         /\ pc' = "snapshot" <=> exists(fs, replica_dir)]_vars
    /\ [][pc = "bootstrap" =>
             /\ pc' \in {"sleep", "crashed"}
             /\ pc' = "sleep" => ops' = <<Op("copytree", replica_dir)>>]_vars
    /\ [](\A i \in 1..Len(ops) : ops[i].op = "copytree" => Len(ops) = 1)
    /\ []((cycle >= 1 \/ pc = "sleep") => check_if_dir_and_not_sym(fs, replica_dir))
    /\ [][(pc = "scan" /\ cycle >= 1) => pc' = "snapshot"]_vars
    /\ [][exists(fs, replica_dir) => exists(fs', replica_dir)]_vars

\* a bootstrap iteration has copied a non-empty source and slept; the next
\* iteration is about to test the replica root
C10_Witness ==
    /\ pc = "scan"
    /\ cycle = 1
    /\ ops = <<Op("copytree", replica_dir)>>
    /\ src_rel_paths # {}
    /\ Converged(fs)

-----------------------------------------------------------------------------
(* C11 *)

\* C11 (no terminal state): main has ended exactly when an error has propagated
\* out of an iteration; an iteration that has begun runs to its sleep unless an
\* error ends it; the sleep is reached only from the end of the bootstrap branch
\* or of the steady branch, and a bootstrap copy that succeeded goes on to it;
\* the sleep is one step that changes nothing and is followed by the next
\* iteration, which begins by walking the source tree anew.
C11_NoTerminalState ==
    /\ [](pc = "crashed" <=> err # NoErr)
    /\ (pc = "scan" /\ cycle < MaxCycles) ~> (pc = "sleep" \/ err # NoErr)
    /\ (pc = "sleep") ~> (pc = "scan")
    /\ [][pc' = "sleep" => (pc \in {"bootstrap", "create"} /\ err' = NoErr)]_vars
    /\ [][(pc = "bootstrap" /\ err' = NoErr) => pc' = "sleep"]_vars
    /\ [][pc = "sleep" => (pc' = "scan" /\ cycle' = cycle + 1 /\ fs' = fs /\ log' = log)]_vars
    /\ [][pc = "scan" => (src_rel_paths' = iter_dir(fs, source_dir) /\ updated' = FALSE
                             /\ pc' \in {"bootstrap", "snapshot"})]_vars

\* two iterations have each run to their sleep, the second finding nothing to do,
\* and a third iteration is about to begin
C11_Witness ==
    /\ pc = "scan"
    /\ cycle = 2
    /\ err = NoErr
    /\ src_rel_paths # {}
    /\ Len(log) > 0 /\ log[Len(log)].msg = "already synchronized"

-----------------------------------------------------------------------------
(* C12 *)

CreationMsgs == {"Creating directory", "Creating file", "Creating symlink"}

CreationLines(l) == SelectSeq(l, LAMBDA r : r.msg \in CreationMsgs)

\* the creation lines for the entries under the replica root
EntryLines(l) == SelectSeq(CreationLines(l), LAMBDA r : r.path # replica_dir)

RootLines(l) == SelectSeq(CreationLines(l), LAMBDA r : r.path = replica_dir)

\* the creation line that describes the source entry at relative path p
LineOf(f, p) ==
    IF SrcE(f, p).kind = "dir" THEN Info("Creating directory", Join(replica_dir, p), NoPath)
    ELSE IF SrcE(f, p).kind = "link"
    THEN Info("Creating symlink", Join(replica_dir, p), SrcE(f, p).target)
    ELSE Info("Creating file", Join(replica_dir, p), NoPath)

\* one line per entry of the snapshot, each describing its entry, shallow-first
OnePerEntry(f, snapshot, lines) ==
    /\ Len(lines) = Cardinality(snapshot)
    /\ {lines[i] : i \in 1..Len(lines)} = {LineOf(f, p) : p \in snapshot}
    /\ \A i, j \in 1..Len(lines) : i < j => Len(lines[i].path) <= Len(lines[j].path)

\* C12 as stated (bootstrap logging): the log of a bootstrap iteration holds no
\* "Creating directory" line for the replica root, and exactly one creation
\* line per entry of the source snapshot, shallow-first; when the source holds
\* one regular file, its "Creating file" line is the only creation line.
C12_BootstrapLogging_AsStated ==
    [][(pc = "bootstrap" /\ err' = NoErr) =>
          /\ RootLines(log') = <<>>
          /\ OnePerEntry(fs, src_rel_paths, EntryLines(log'))
          /\ (src_rel_paths = {<<"a">>} /\ SrcE(fs, <<"a">>).kind = "file") =>
                CreationLines(log') = <<Info("Creating file", <<"R", "a">>, NoPath)>>]_vars

\* C12 as amended: the log of a bootstrap iteration holds exactly one "Creating
\* directory" line for the replica root, logged before the copy whether or not
\* the copy succeeds; when the copy succeeds it is followed by exactly one
\* creation line per entry of the source snapshot, shallow-first, and no line
\* otherwise; when the source holds one regular file the creation lines are
\* the root's line and the file's "Creating file" line.
C12_BootstrapLogging ==
    [][pc = "bootstrap" =>
          /\ RootLines(log') = <<Info("Creating directory", replica_dir, NoPath)>>
          /\ CreationLines(log')[1] = Info("Creating directory", replica_dir, NoPath)
          /\ err' # NoErr => EntryLines(log') = <<>>
          /\ err' = NoErr =>
                /\ OnePerEntry(fs, src_rel_paths, EntryLines(log'))
                /\ (src_rel_paths = {<<"a">>} /\ SrcE(fs, <<"a">>).kind = "file") =>
                      CreationLines(log') = <<Info("Creating directory", replica_dir, NoPath),
                                              Info("Creating file", <<"R", "a">>, NoPath)>>]_vars

\* a bootstrap iteration has copied a source holding a directory with a regular
\* file and a link in it, and logged the root's line and three entry lines
C12_Witness ==
    /\ pc = "sleep"
    /\ ops = <<Op("copytree", replica_dir)>>
    /\ Len(CreationLines(log)) = 4
    /\ {r.msg : r \in {log[i] : i \in 1..Len(log)}} \cap CreationMsgs = CreationMsgs

-----------------------------------------------------------------------------
(* C13 *)

\* C13 (partition invariant): in a steady iteration, once the differences are
\* taken they are the two set differences of the snapshots, and once the common
\* set is taken it is their intersection; the three sets are pairwise disjoint
\* and cover the union of the snapshots, whatever has happened to the trees
\* since the snapshots were taken.
C13_Partition ==
    /\ pc \in {"delete", "common", "create"} =>
          /\ only_in_rep = rep_rel_paths \ src_rel_paths
          /\ only_in_src = src_rel_paths \ rep_rel_paths
    /\ pc \in {"common", "create"} =>
          /\ common_rel_paths = src_rel_paths \cap rep_rel_paths
          /\ only_in_rep \cap only_in_src = {}
          /\ only_in_rep \cap common_rel_paths = {}
          /\ only_in_src \cap common_rel_paths = {}
          /\ only_in_rep \cup only_in_src \cup common_rel_paths
                = src_rel_paths \cup rep_rel_paths

\* the three sets are all non-empty, and a third party has changed the replica
\* since its snapshot, so that a new walk would give another result
C13_Witness ==
    /\ pc = "common"
    /\ only_in_rep # {}
    /\ only_in_src # {}
    /\ common_rel_paths # {}
    /\ edits = 1
    /\ src_rel_paths \cap iter_dir(fs, replica_dir) # common_rel_paths

-----------------------------------------------------------------------------
(* C14 *)

\* C14 (configuration errors): when the source root does not exist or is not a
\* directory as main starts, main ends with an error in its first step, before
\* the loop: no snapshot is taken, nothing is mutated, and nothing happens later.
C14_ConfigurationErrors ==
    /\ [][(pc = "start" /\ ~(exists(fs, source_dir) /\ is_dir(fs, source_dir))) =>
             /\ pc' = "crashed"
             /\ err' # NoErr
             /\ fs' = fs
             /\ ops' = <<>>
             /\ cycle' = 0
             /\ src_rel_paths' = {} /\ rep_rel_paths' = {}]_vars
    /\ [][pc = "crashed" => (fs' = fs /\ ops' = ops /\ pc' = "crashed")]_vars
    /\ [](pc = "start" => (ops = <<>> /\ src_rel_paths = {} /\ rep_rel_paths = {}))

\* main has ended at its tests: the source root was a regular file, next to a
\* replica that holds entries
C14_Witness ==
    /\ pc = "crashed"
    /\ err.op = "raise"
    /\ is_file(fs, source_dir)
    /\ iter_dir(fs, replica_dir) # {}
    /\ ops = <<>>

-----------------------------------------------------------------------------
(* C15 *)

\* C15 (error kinds): when main has ended at its tests of the source root, the
\* error raised is of the not-found kind if the path does not exist and of the
\* not-a-directory kind, another kind, if it exists and is not a directory.
C15_ErrorKinds ==
    err.op = "raise" =>
        /\ ~exists(fs, source_dir) => err.kind = "FileNotFoundError"
        /\ (exists(fs, source_dir) /\ ~is_dir(fs, source_dir)) =>
              err.kind = "NotADirectoryError"

-----------------------------------------------------------------------------
(* C16 *)

\* C16 (write confinement): no step of main changes, creates or removes an
\* entry that is not the replica root or beneath it: the source tree and what
\* lies outside both trees stay as they are.
C16_WriteConfinement ==
    [][\A x \in DOMAIN fs \cup DOMAIN fs' :
          ~(x = replica_dir \/ IsUnder(x, replica_dir)) =>
              (x \in DOMAIN fs /\ x \in DOMAIN fs' /\ fs'[x] = fs[x])]_vars

-----------------------------------------------------------------------------
(* C17 *)

\* the step of a steady iteration a log line belongs to: 1 removal, 2 update of
\* a common entry, 3 creation, 0 any other line
PhaseOf(r) ==
    IF r.msg \in {"Removing directory", "Removing symlink", "Removing file"} THEN 1
    ELSE IF r.msg \in {"Updating symlink", "Updating file"} THEN 2
    ELSE IF r.msg \in {"Creating directory", "Creating symlink", "Creating file"} THEN 3
    ELSE 0

Handled(q) == {q[i] : i \in 1..Len(q)}

\* C17 (phase order): in a steady iteration the comparison loop begins only
\* when the removal loop has run out, with every replica-only path removed, and
\* the creation loop begins only when the comparison loop has run out; no step
\* goes back to an earlier loop; each loop handles paths of its own set only;
\* and in the log no removal line follows an update or creation line and no
\* update line follows a creation line.
C17_PhaseOrder ==
    /\ [][(pc' = "common" /\ pc # "common") => (pc = "delete" /\ queue = <<>>)]_vars
    /\ [][(pc' = "create" /\ pc # "create") => (pc = "common" /\ queue = <<>>)]_vars
    /\ [][pc = "common" => pc' \in {"common", "create", "crashed"}]_vars
    /\ [][pc = "create" => pc' \in {"create", "sleep", "crashed"}]_vars
    /\ [](pc = "delete" => Handled(queue) \subseteq only_in_rep)
    /\ [](pc = "common" => Handled(queue) \subseteq common_rel_paths)
    /\ [](pc = "create" => Handled(queue) \subseteq only_in_src)
    /\ [](pc \in {"common", "create"} =>
             {Join(replica_dir, p) : p \in only_in_rep}
                \subseteq {ops[i].path : i \in 1..Len(ops)})
    /\ [](\A i, j \in 1..Len(log) :
             (i < j /\ PhaseOf(log[i]) > 0 /\ PhaseOf(log[j]) > 0) =>
                 PhaseOf(log[i]) <= PhaseOf(log[j]))

\* a steady iteration has run to its sleep after a removal, the handling of a
\* common entry and a creation
C17_Witness ==
    /\ pc = "sleep"
    /\ only_in_rep # {}
    /\ common_rel_paths # {}
    /\ only_in_src # {}
    /\ \E i, j \in 1..Len(log) : i < j /\ PhaseOf(log[i]) = 1 /\ PhaseOf(log[j]) = 3

-----------------------------------------------------------------------------
(* C18 *)

\* the entries beneath root that are reached from it through real directories
\* only, as paths relative to root
ReachedThroughDirs(f, root) ==
    {relative_to(x) :
        x \in {y \in DOMAIN f :
                 /\ IsUnder(y, root)
                 /\ \A k \in (Len(root) + 1)..(Len(y) - 1) :
                        SubSeq(y, 1, k) \in DOMAIN f /\ f[SubSeq(y, 1, k)].kind = "dir"}}

\* what C18 says of the result of a walk
WalkResult(f, root, result) ==
    /\ result = ReachedThroughDirs(f, root)
    /\ <<>> \notin result
    /\ \A p \in result :
          /\ f[Join(root, p)].kind = "dir" =>
                \A q \in DOMAIN f : IsUnder(q, Join(root, p)) => relative_to(q) \in result
          /\ f[Join(root, p)].kind = "link" =>
                \A name \in {"a", "b"} : (p \o <<name>>) \notin result
          /\ Len(p) > 1 => (Parent(p) \in result /\ f[Join(root, Parent(p))].kind = "dir")

\* C18 (tree walk): each walk main makes (of the source at the start of an
\* iteration, of the replica in a steady iteration) ends and returns exactly the
\* relative paths of the entries reached from the root through real directories:
\* a real directory with all beneath it, a link itself and nothing beneath it
\* (whatever it leads to: a file, a directory that holds entries, an ancestor,
\* itself, nothing), and never the root.
C18_TreeWalk ==
    /\ [][pc = "scan" =>
             (pc' \in {"bootstrap", "snapshot"}
                 /\ WalkResult(fs, source_dir, src_rel_paths'))]_vars
    /\ [][pc = "snapshot" =>
             (pc' = "delete" /\ WalkResult(fs, replica_dir, rep_rel_paths'))]_vars

\* the source was walked with, in a directory, a link to that directory's parent
\* (the source root) and a link to an outside directory that holds an entry,
\* which is reached through the link and is not in the result
C18_Witness ==
    /\ pc \in {"bootstrap", "snapshot"}
    /\ cycle = 0
    /\ src_rel_paths = {<<"a">>, <<"a", "a">>, <<"a", "b">>}
    /\ fs[<<"S", "a", "a">>] = LinkE(source_dir)
    /\ fs[<<"S", "a", "b">>] = LinkE(<<"X", "d">>)
    /\ exists(fs, <<"S", "a", "b", "a">>)
    /\ exists(fs, <<"S", "a", "a", "a", "a">>)

-----------------------------------------------------------------------------
(* C19 *)

\* an iteration's loops run to their end or to the first exception, over a
\* given order of their paths
Ran(f, cache, e) == [fs |-> f, cache |-> cache, err |-> e]

RECURSIVE RemoveAll(_, _, _)
RemoveAll(f, cache, q) ==
    IF q = <<>> THEN Ran(f, cache, NoErr)
    ELSE LET o == RemoveOutcome(f, replica_dir, Head(q), FALSE)
         IN IF o.err # NoErr THEN Ran(o.fs, cache, o.err)
            ELSE RemoveAll(o.fs, cache, Tail(q))

RECURSIVE CompareAll(_, _, _)
CompareAll(f, cache, q) ==
    IF q = <<>> THEN Ran(f, cache, NoErr)
    ELSE LET o == CompareOutcome(f, cache, Head(q), FALSE, FALSE)
             src_path == Join(source_dir, Head(q))
             rep_path == Join(replica_dir, Head(q))
             after == IF is_file(f, src_path) /\ ~is_symlink(f, src_path) /\ exists(f, rep_path)
                      THEN cache_after(f, cache, src_path, rep_path)
                      ELSE cache
         IN IF o.err # NoErr THEN Ran(o.fs, after, o.err)
            ELSE CompareAll(o.fs, after, Tail(q))

RECURSIVE CreateAll(_, _, _)
CreateAll(f, cache, q) ==
    IF q = <<>> THEN Ran(f, cache, NoErr)
    ELSE LET o == CreateOutcome(f, Head(q), FALSE)
         IN IF o.err # NoErr THEN Ran(o.fs, cache, o.err)
            ELSE CreateAll(o.fs, cache, Tail(q))

\* a steady iteration from the replica snapshot on, with the three orders given
SteadyCycle(f, cache, del, com, cre) ==
    LET d == RemoveAll(f, cache, del)
        c == IF d.err # NoErr THEN d ELSE CompareAll(d.fs, d.cache, com)
    IN IF c.err # NoErr THEN c ELSE CreateAll(c.fs, c.cache, cre)

\* the orders the three loops of a steady iteration may take, given the source
\* snapshot: <<removal order, order of the common set, creation order>>
Orders(f, src) ==
    LET rep == iter_dir(f, replica_dir)
    IN sort_paths_set_by_sep(rep \ src, TRUE) \X Perms(src \cap rep)
          \X sort_paths_set_by_sep(src \ rep, FALSE)

\* the replica tree: its root and what lies beneath it
ReplicaOf(f) == [x \in {y \in DOMAIN f : y = replica_dir \/ IsUnder(y, replica_dir)} |-> f[x]]

\* C19 (order independence): as a steady iteration is about to take its replica
\* snapshot, the replica tree it ends with is the same for every order of the
\* common set and every order of equally deep paths in the removal and in the
\* creation loop.
C19_OrderIndependence ==
    pc = "snapshot" =>
        \A o1, o2 \in Orders(fs, src_rel_paths) :
            ReplicaOf(SteadyCycle(fs, cmp_cache, o1[1], o1[2], o1[3]).fs)
              = ReplicaOf(SteadyCycle(fs, cmp_cache, o2[1], o2[2], o2[3]).fs)

-----------------------------------------------------------------------------
(* C20 *)

\* the iteration that has reached its sleep was a steady one
SteadyDone == pc = "sleep" /\ ~(ops # <<>> /\ ops[1].op = "copytree")

Reported(l) == \E i \in 1..Len(l) : l[i] = Debug("already synchronized")

\* C20 (change reporting): a steady iteration that has run to its sleep has
\* logged the "already synchronized" record exactly when it performed no
\* mutation, and the record is decided at the end of the creation loop by that
\* alone.
C20_ChangeReporting ==
    /\ [](SteadyDone => (Reported(log) <=> ops = <<>>))
    /\ [](SteadyDone => (Reported(log) <=> ~updated))
    /\ [][(pc = "create" /\ pc' = "sleep") =>
             /\ ops = <<>> => log' = log \o <<Debug("already synchronized")>>
             /\ ops # <<>> => log' = log]_vars

\* a steady iteration whose only mutation was the update of a common entry has
\* run to its sleep without the record
C20_Witness ==
    /\ SteadyDone
    /\ only_in_rep = {}
    /\ only_in_src = {}
    /\ ops # <<>>
    /\ ~Reported(log)

====
